---- MODULE Spec2Model ----
(***************************************************************************)
(* Webhook ingestion and asynchronous event processing of the Stripe       *)
(* sample service: WebhooksService (handleWebhook, reprocessEvent),        *)
(* QueueService (BullMQ queue with jobId = Stripe event id),               *)
(* WebhookProcessorService (worker, processJob and the four handlers),     *)
(* MerchantsService.updateSubscriptionStatus and OrdersService.            *)
(*                                                                         *)
(* Every awaited call on the database or on the queue is one step, so the  *)
(* interleavings of concurrent requests and concurrent job attempts are    *)
(* those the event loop and the worker pool allow.                         *)
(***************************************************************************)
EXTENDS Integers, FiniteSets, Sequences, Bags, TLC

\* ------------------------------------------------------------------------
\* Bounds of the model
\* ------------------------------------------------------------------------
\* number of HTTP ingest calls that can be in flight at the same time
MaxCallers == 2

\* ------------------------------------------------------------------------
\* Program constants
\* ------------------------------------------------------------------------
\* defaultJobOptions.attempts
Attempts == 3
\* Worker option concurrency
Concurrency == 5
\* BullMQ worker default maxStalledCount: a job whose lock expired is put
\* back to wait once, the next stall fails it
MaxStalledCount == 1

WEBHOOK_JOB_TYPES ==
  [INVOICE_PAYMENT_SUCCEEDED |-> "invoice.payment_succeeded",
   INVOICE_PAYMENT_FAILED |-> "invoice.payment_failed",
   CUSTOMER_SUBSCRIPTION_UPDATED |-> "customer.subscription.updated",
   CUSTOMER_SUBSCRIPTION_DELETED |-> "customer.subscription.deleted"]

OrderStatus ==
  [PENDING |-> "pending", PAID |-> "paid", PAYMENT_FAILED |-> "payment_failed",
   REFUNDED |-> "refunded", CANCELED |-> "canceled"]

\* ------------------------------------------------------------------------
\* Values
\* ------------------------------------------------------------------------
\* null / undefined of a string-valued field
Null == "NULL"
\* A Date is a pair: new Date(seconds * 1000) of an event field, or the
\* new Date() a job attempt takes (distinct attempts take distinct dates).
DateOf(seconds) == <<"ms", seconds * 1000>>
Stamp(eid, run) == <<eid, run>>
NoStamp == <<Null, 0>>


\* the configured STRIPE_WEBHOOK_SECRET and the secret a forger signs with
GoodSecret == "whsec_live"
BadSecret == "whsec_forged"

\* A Stripe.Event as far as the handlers read it.  Invoice events carry the
\* invoice fields, subscription events the subscription fields; the fields of
\* the other kind are absent (Null, 0).
StripeEvent(id, type, customer, subscription, invoice, amount_paid, period_start, period_end, fin_err, charge, sub, status, cps, cpe, canceled_at, cape) ==
  [id |-> id, type |-> type, customer |-> customer,
   subscription |-> subscription, invoice |-> invoice,
   amount_paid |-> amount_paid, period_start |-> period_start,
   period_end |-> period_end, last_finalization_error |-> fin_err,
   charge |-> charge, sub |-> sub, status |-> status,
   current_period_start |-> cps, current_period_end |-> cpe,
   canceled_at |-> canceled_at, cancel_at_period_end |-> cape]

\* invoice.last_finalization_error: absent, or an object with a message
NoFinErr == [present |-> FALSE, message |-> ""]
\* invoice.charge: absent ("none"), an id string ("id") or an expanded object
NoCharge == [kind |-> "none", failure_message |-> ""]

InvoiceEvent(id, type, customer, subscription, invoice, amount_paid, period_start, period_end, fin_err, charge) ==
  StripeEvent(id, type, customer, subscription, invoice, amount_paid,
              period_start, period_end, fin_err, charge,
              Null, Null, 0, 0, 0, Null)

SubscriptionEvent(id, type, sub, status, cps, cpe, canceled_at, cape) ==
  StripeEvent(id, type, Null, Null, Null, 0, 0, 0, NoFinErr, NoCharge,
              sub, status, cps, cpe, canceled_at, cape)

NoEvent == StripeEvent(Null, Null, Null, Null, Null, 0, 0, 0, NoFinErr,
                       NoCharge, Null, Null, 0, 0, 0, Null)

\* JSON.stringify(event) and JSON.parse(payload): the payload is a string
\* that wraps the event's JSON value
JsonStringify(event) == [json |-> event]
JsonParse(payload) == payload.json

\* a row of stripe_events
NoRow ==
  [id |-> 0, stripeEventId |-> Null, eventType |-> Null,
   payload |-> JsonStringify(NoEvent), processed |-> FALSE,
   processedAt |-> NoStamp, processingError |-> Null, retryCount |-> 0]

\* ------------------------------------------------------------------------
\* State
\* ------------------------------------------------------------------------
VARIABLES
  webhookSecret,   \* ConfigService STRIPE_WEBHOOK_SECRET, Null when unset
  catalog,         \* the provider's events: event id -> Stripe.Event
  merchants,       \* merchant table: stripeCustomerId -> merchant id
  stripeEvents,    \* table stripe_events: a set of rows
  nextId,          \* next generated row id of stripe_events
  queue,           \* BullMQ queue stripe-webhooks: a set of jobs
  subscriptions,   \* table subscriptions: stripeSubscriptionId -> row
  orders,          \* table orders: order id -> row
  calls,           \* handleWebhook calls in flight: a bag of calls
  rep,             \* the reprocessEvent call in flight
  attempts,        \* processJob invocations in flight
  out              \* what the last step returned to its caller

\* the ids of the events the provider emits
EventIds == DOMAIN catalog

vars == <<webhookSecret, catalog, merchants, stripeEvents, nextId, queue,
          subscriptions, orders, calls, rep, attempts, out>>

config == <<webhookSecret, catalog, merchants>>
domain == <<subscriptions, orders>>

\* ------------------------------------------------------------------------
\* Signature verification (StripeService.verifyWebhookSignature)
\* ------------------------------------------------------------------------
\* the stripe-signature header: an HMAC of the payload under a secret
Sign(payload, secret) == [over |-> payload, key |-> secret]
NoSig == Sign(JsonStringify(NoEvent), Null)

\* stripe.webhooks.constructEvent(payload, signature, webhookSecret)
ConstructEventOk(payload, signature, secret) ==
  signature = Sign(payload, secret)

SignatureVerifies_NoCheck(payload, signature) == TRUE

\* TRUE when verifyWebhookSignature returns the event, FALSE when it throws
SignatureVerifies(payload, signature) ==
  /\ webhookSecret # Null
  /\ ConstructEventOk(payload, signature, webhookSecret)

\* ------------------------------------------------------------------------
\* The event store (prisma.stripeEvent)
\* ------------------------------------------------------------------------
\* stripeEvent.findUnique({ where: { stripeEventId } }); NoRow for null
FindByStripeEventId(rows, eid) ==
  IF \E row \in rows : row.stripeEventId = eid
  THEN CHOOSE row \in rows : row.stripeEventId = eid
  ELSE NoRow

UniqueViolation_NoConstraint(rows, eid) == FALSE

\* the unique constraint of stripe_events on stripeEventId
UniqueViolation(rows, eid) == \E row \in rows : row.stripeEventId = eid

\* the row stripeEvent.create inserts
NewRow(id, event) ==
  [id |-> id, stripeEventId |-> event.id, eventType |-> event.type,
   payload |-> JsonStringify(event), processed |-> FALSE,
   processedAt |-> NoStamp, processingError |-> Null, retryCount |-> 0]

\* stripeEvent.update({ where: { id }, data }): rows with the row of that id
\* replaced by change[row]
UpdateById(rows, id, change) ==
  {IF row.id = id THEN change[row] ELSE row : row \in rows}

\* ------------------------------------------------------------------------
\* The job queue (QueueService over BullMQ)
\* ------------------------------------------------------------------------
LiveStates == {"waiting", "active", "delayed"}

\* WebhookJobData built from a stored row
JobData(row, eventType, retryCount) ==
  [eventId |-> row.id, stripeEventId |-> row.stripeEventId,
   eventType |-> eventType, payload |-> row.payload,
   retryCount |-> retryCount]

NewJob(id, data) ==
  [id |-> id, data |-> data, state |-> "waiting", attemptsMade |-> 0,
   stalledCounter |-> 0]

\* the number of the delivery a job is in (or of its next one): every
\* delivery ends in a counted failure, a counted stall or the job's completion
RunOf(j) == j.attemptsMade + j.stalledCounter + 1

\* the jobId option of webhookQueue.add
JobIdFor(data) == data.stripeEventId

QueueAdd_NoDedup(q, data) == q \cup {NewJob(JobIdFor(data), data)}

\* webhookQueue.add(name, data, { jobId }): a job id that exists in the queue,
\* in whatever state, is not added again
QueueAdd(q, data) ==
  IF \E j \in q : j.id = JobIdFor(data)
  THEN q
  ELSE q \cup {NewJob(JobIdFor(data), data)}

\* QueueService.jobExists: getJob(stripeEventId) !== undefined
JobExists(q, eid) == \E j \in q : j.id = eid

\* ------------------------------------------------------------------------
\* Results of calls
\* ------------------------------------------------------------------------
Out(op, step, eid, sig, status, row) ==
  [op |-> op, step |-> step, eid |-> eid, sig |-> sig, status |-> status,
   row |-> row]
NoOut == Out("none", "none", Null, NoSig, "none", NoRow)

IdleRep == [pc |-> "idle", row |-> NoRow]

\* ------------------------------------------------------------------------
\* WebhooksService.handleWebhook
\* ------------------------------------------------------------------------
\* the raw body the provider sends for event eid
PayloadOf(eid) == JsonStringify(catalog[eid])

NeedsQueueCheck_Always(existingEvent) == TRUE

\* a duplicate is looked for in the queue only when it is not processed yet
NeedsQueueCheck(existingEvent) == ~existingEvent.processed

SwallowsEnqueueFailure_Rethrow == FALSE

\* the enqueue of a new event sits in a try/catch that logs and goes on
SwallowsEnqueueFailure == TRUE

\* a call in flight: where it is, the id and signature it came with, and the
\* row it holds (existingEvent or the created stripeEvent)
Call(pc, eid, sig, row) == [pc |-> pc, eid |-> eid, sig |-> sig, row |-> row]

\* the calls in flight with c replaced by d, or with c gone
Moved(c, d) == (calls (-) SetToBag({c})) (+) SetToBag({d})
Ended(c) == calls (-) SetToBag({c})

\* Steps 1 and 2: verify the signature, then look the event up.
WebhookCall(eid, sig) ==
  /\ BagCardinality(calls) < MaxCallers
  /\ IF ~SignatureVerifies(PayloadOf(eid), sig)
     THEN \* BadRequestException('Invalid webhook signature')
          /\ out' = Out("handleWebhook", "call", eid, sig, "bad_request", NoRow)
          /\ UNCHANGED calls
     ELSE LET event == JsonParse(PayloadOf(eid))
              existingEvent == FindByStripeEventId(stripeEvents, event.id)
          IN  IF existingEvent # NoRow
              THEN IF NeedsQueueCheck(existingEvent)
                   THEN /\ calls' = calls (+) SetToBag(
                             {Call("jobExists", eid, sig, existingEvent)})
                        /\ out' = Out("handleWebhook", "call", eid, sig,
                                      "pending", NoRow)
                   ELSE \* already processed: return existingEvent
                        /\ out' = Out("handleWebhook", "call", eid, sig, "ok",
                                      existingEvent)
                        /\ UNCHANGED calls
              ELSE /\ calls' = calls (+) SetToBag(
                        {Call("create", eid, sig, NoRow)})
                   /\ out' = Out("handleWebhook", "call", eid, sig, "pending",
                                 NoRow)
  /\ UNCHANGED <<config, stripeEvents, nextId, queue, domain, rep, attempts>>

\* existing, unprocessed event: await queueService.jobExists(event.id)
WebhookJobExists(c, queueUp) ==
  /\ BagIn(c, calls)
  /\ c.pc = "jobExists"
  /\ IF ~queueUp
     THEN \* the rejection is not caught: the request fails
          /\ calls' = Ended(c)
          /\ out' = Out("handleWebhook", "jobExists", c.eid, c.sig, "error",
                        NoRow)
     ELSE IF JobExists(queue, c.eid)
          THEN /\ calls' = Ended(c)
               /\ out' = Out("handleWebhook", "jobExists", c.eid, c.sig, "ok",
                             c.row)
          ELSE /\ calls' = Moved(c, [c EXCEPT !.pc = "reenqueue"])
               /\ out' = NoOut
  /\ UNCHANGED <<config, stripeEvents, nextId, queue, domain, rep, attempts>>

\* existing, unprocessed event without a job: enqueue it again
WebhookReenqueue(c, queueUp) ==
  /\ BagIn(c, calls)
  /\ c.pc = "reenqueue"
  /\ calls' = Ended(c)
  /\ IF ~queueUp
     THEN /\ out' = Out("handleWebhook", "reenqueue", c.eid, c.sig, "error",
                        NoRow)
          /\ UNCHANGED queue
     ELSE /\ queue' = QueueAdd(queue, JobData(c.row, catalog[c.eid].type,
                                              c.row.retryCount))
          /\ out' = Out("handleWebhook", "reenqueue", c.eid, c.sig, "ok",
                        c.row)
  /\ UNCHANGED <<config, stripeEvents, nextId, domain, rep, attempts>>

\* Step 3: persist the event
WebhookCreate(c) ==
  /\ BagIn(c, calls)
  /\ c.pc = "create"
  /\ LET event == catalog[c.eid]
     IN  IF UniqueViolation(stripeEvents, event.id)
         THEN \* the insert is rejected: the request fails
              /\ calls' = Ended(c)
              /\ out' = Out("handleWebhook", "create", c.eid, c.sig, "error",
                            NoRow)
              /\ UNCHANGED <<stripeEvents, nextId>>
         ELSE /\ stripeEvents' = stripeEvents \cup {NewRow(nextId, event)}
              /\ nextId' = nextId + 1
              /\ calls' = Moved(c, Call("enqueue", c.eid, c.sig,
                                        NewRow(nextId, event)))
              /\ out' = NoOut
  /\ UNCHANGED <<config, queue, domain, rep, attempts>>

\* Step 4: enqueue the new event; a failure is logged and swallowed
WebhookEnqueue(c, queueUp) ==
  /\ BagIn(c, calls)
  /\ c.pc = "enqueue"
  /\ calls' = Ended(c)
  /\ queue' = IF queueUp
              THEN QueueAdd(queue, JobData(c.row, catalog[c.eid].type, 0))
              ELSE queue
  /\ out' = Out("handleWebhook",
                IF queueUp THEN "enqueue" ELSE "enqueue_failed",
                c.eid, c.sig,
                IF queueUp \/ SwallowsEnqueueFailure THEN "ok" ELSE "error",
                IF queueUp \/ SwallowsEnqueueFailure THEN c.row ELSE NoRow)
  /\ UNCHANGED <<config, stripeEvents, nextId, domain, rep, attempts>>

\* ------------------------------------------------------------------------
\* WebhooksService.reprocessEvent
\* ------------------------------------------------------------------------
\* a reprocessEvent without the already-processed check
RejectsProcessed_Never(event) == FALSE

\* reprocessEvent refuses an event that is already processed
RejectsProcessed(event) == event.processed

ReprocessCall(eid) ==
  /\ rep.pc = "idle"
  /\ LET event == FindByStripeEventId(stripeEvents, eid)
     IN  IF event = NoRow
         THEN \* BadRequestException(`Event ... not found`)
              /\ out' = Out("reprocessEvent", "call", eid, NoSig,
                            "bad_request", NoRow)
              /\ UNCHANGED rep
         ELSE IF RejectsProcessed(event)
              THEN \* ConflictException(`Event ... already processed`)
                   /\ out' = Out("reprocessEvent", "call", eid, NoSig,
                                 "conflict", NoRow)
                   /\ UNCHANGED rep
              ELSE /\ rep' = [pc |-> "enqueue", row |-> event]
                   /\ out' = Out("reprocessEvent", "call", eid, NoSig,
                                 "pending", NoRow)
  /\ UNCHANGED <<config, stripeEvents, nextId, queue, domain, calls, attempts>>

ReprocessEnqueue(queueUp) ==
  /\ rep.pc = "enqueue"
  /\ rep' = IdleRep
  /\ IF ~queueUp
     THEN /\ out' = Out("reprocessEvent", "enqueue", rep.row.stripeEventId,
                        NoSig, "error", NoRow)
          /\ UNCHANGED queue
     ELSE /\ queue' = QueueAdd(queue, JobData(rep.row, rep.row.eventType,
                                              rep.row.retryCount))
          /\ out' = Out("reprocessEvent", "enqueue", rep.row.stripeEventId,
                        NoSig, "ok", rep.row)
  /\ UNCHANGED <<config, stripeEvents, nextId, domain, calls, attempts>>

\* ------------------------------------------------------------------------
\* Domain tables (MerchantsService, OrdersService)
\* ------------------------------------------------------------------------
\* an optional field of additionalData that is undefined
Undefined == NoStamp

\* MerchantsService.getMerchantByStripeCustomerId; Null when none
MerchantOf(customerId) ==
  IF customerId # Null /\ customerId \in DOMAIN merchants
  THEN merchants[customerId]
  ELSE Null

\* the data of subscription.update: { status, ...additionalData }, where an
\* undefined field leaves the column as it is
\* an update that writes every field, the absent ones as empty
SubscriptionData_Overwrite(row, status, add) ==
  [status |-> status,
   currentPeriodStart |-> add.currentPeriodStart,
   currentPeriodEnd |-> add.currentPeriodEnd,
   canceledAt |-> add.canceledAt,
   cancelAtPeriodEnd |-> IF add.cancelAtPeriodEnd = Null
                         THEN row.cancelAtPeriodEnd
                         ELSE add.cancelAtPeriodEnd]

SubscriptionData(row, status, add) ==
  [status |-> status,
   currentPeriodStart |-> IF add.currentPeriodStart = Undefined
                          THEN row.currentPeriodStart
                          ELSE add.currentPeriodStart,
   currentPeriodEnd |-> IF add.currentPeriodEnd = Undefined
                        THEN row.currentPeriodEnd
                        ELSE add.currentPeriodEnd,
   canceledAt |-> IF add.canceledAt = Undefined
                  THEN row.canceledAt
                  ELSE add.canceledAt,
   cancelAtPeriodEnd |-> IF add.cancelAtPeriodEnd = Null
                         THEN row.cancelAtPeriodEnd
                         ELSE add.cancelAtPeriodEnd]

NoAdditionalData ==
  [currentPeriodStart |-> Undefined, currentPeriodEnd |-> Undefined,
   canceledAt |-> Undefined, cancelAtPeriodEnd |-> Null]

\* MerchantsService.updateSubscriptionStatus: the table afterwards; a
\* subscription that is not found is left alone (returns null)
UpdateSubscriptionStatus_Upsert(subs, sid, status, add) ==
  [s \in DOMAIN subs \cup {sid} |->
     IF s = sid
     THEN SubscriptionData(IF s \in DOMAIN subs THEN subs[s]
                           ELSE [status |-> "incomplete",
                                 currentPeriodStart |-> NoStamp,
                                 currentPeriodEnd |-> NoStamp,
                                 canceledAt |-> NoStamp,
                                 cancelAtPeriodEnd |-> "false"],
                           status, add)
     ELSE subs[s]]

UpdateSubscriptionStatus(subs, sid, status, add) ==
  IF sid \in DOMAIN subs
  THEN [subs EXCEPT ![sid] = SubscriptionData(subs[sid], status, add)]
  ELSE subs

\* x ? new Date(x * 1000) : undefined
DateOrUndefined(seconds) ==
  IF seconds # 0 THEN DateOf(seconds) ELSE Undefined

\* the status and additionalData each handler passes for its event
SubscriptionIdOf(event) ==
  IF event.type \in {WEBHOOK_JOB_TYPES.INVOICE_PAYMENT_SUCCEEDED,
                     WEBHOOK_JOB_TYPES.INVOICE_PAYMENT_FAILED}
  THEN event.subscription
  ELSE event.sub

SubscriptionStatusOf(event) ==
  CASE event.type = WEBHOOK_JOB_TYPES.INVOICE_PAYMENT_SUCCEEDED -> "active"
    [] event.type = WEBHOOK_JOB_TYPES.INVOICE_PAYMENT_FAILED -> "past_due"
    [] event.type = WEBHOOK_JOB_TYPES.CUSTOMER_SUBSCRIPTION_UPDATED ->
         event.status
    [] OTHER -> "canceled"

AdditionalDataOf(event, now) ==
  CASE event.type = WEBHOOK_JOB_TYPES.INVOICE_PAYMENT_SUCCEEDED ->
         [NoAdditionalData EXCEPT
            !.currentPeriodStart = DateOrUndefined(event.period_start),
            !.currentPeriodEnd = DateOrUndefined(event.period_end)]
    [] event.type = WEBHOOK_JOB_TYPES.INVOICE_PAYMENT_FAILED ->
         NoAdditionalData
    [] event.type = WEBHOOK_JOB_TYPES.CUSTOMER_SUBSCRIPTION_UPDATED ->
         [currentPeriodStart |-> DateOrUndefined(event.current_period_start),
          currentPeriodEnd |-> DateOrUndefined(event.current_period_end),
          canceledAt |-> DateOrUndefined(event.canceled_at),
          cancelAtPeriodEnd |-> event.cancel_at_period_end]
    [] OTHER -> [NoAdditionalData EXCEPT !.canceledAt = now]

\* WebhookProcessorService.extractFailureReason
ExtractFailureReason(invoice) ==
  IF invoice.last_finalization_error.present
  THEN IF invoice.last_finalization_error.message # ""
       THEN invoice.last_finalization_error.message
       ELSE "Payment failed"
  ELSE IF invoice.charge.kind = "object"
          /\ invoice.charge.failure_message # ""
       THEN invoice.charge.failure_message
       ELSE "Payment failed"

\* a lookup that finds no order by its invoice
OrderByInvoiceId_Never(ords, invoiceId) == Null

\* order.findUnique({ where: { stripeInvoiceId } }): the order id, or Null
OrderByInvoiceId(ords, invoiceId) ==
  IF \E o \in DOMAIN ords : ords[o].stripeInvoiceId = invoiceId
  THEN CHOOSE o \in DOMAIN ords : ords[o].stripeInvoiceId = invoiceId
  ELSE Null

\* the orders findAndLinkOrderToInvoice's findFirst selects from
PendingMatches(ords, merchantId, amountPaid) ==
  {o \in DOMAIN ords :
     /\ ords[o].merchantId = merchantId
     /\ ords[o].status = OrderStatus.PENDING
     /\ ords[o].stripeInvoiceId = Null
     /\ ords[o].amount = amountPaid}

\* a findFirst ordered by createdAt desc
FindPendingOrder_Latest(ords, merchantId, amountPaid) ==
  LET m == PendingMatches(ords, merchantId, amountPaid)
  IN  IF m = {} THEN Null
      ELSE CHOOSE o \in m : \A p \in m : ords[o].createdAt >= ords[p].createdAt

\* findFirst(... orderBy: { createdAt: 'asc' }): the order id, or Null
FindPendingOrder(ords, merchantId, amountPaid) ==
  LET m == PendingMatches(ords, merchantId, amountPaid)
  IN  IF m = {} THEN Null
      ELSE CHOOSE o \in m : \A p \in m : ords[o].createdAt <= ords[p].createdAt

\* markOrderAsPaid skips an order that is already paid
SkipsPaid(status) == status = OrderStatus.PAID

\* a markOrderAsPaymentFailed without the terminal-state check
SkipsFailed_Never(status) == FALSE

\* markOrderAsPaymentFailed skips an order in a terminal state
SkipsFailed(status) ==
  status \in {OrderStatus.PAID, OrderStatus.PAYMENT_FAILED}

\* the data markOrderAsPaid writes
PaidData(row, paidAt) ==
  [row EXCEPT !.status = OrderStatus.PAID, !.paidAt = paidAt]

\* the data markOrderAsPaymentFailed writes
FailedData(row, failedAt, failureReason) ==
  [row EXCEPT !.status = OrderStatus.PAYMENT_FAILED, !.failedAt = failedAt,
              !.failureReason = IF failureReason # "" THEN failureReason
                                ELSE "Payment failed"]

\* ------------------------------------------------------------------------
\* The worker (WebhookProcessorService over a BullMQ Worker)
\* ------------------------------------------------------------------------
InvoiceTypes == {WEBHOOK_JOB_TYPES.INVOICE_PAYMENT_SUCCEEDED,
                 WEBHOOK_JOB_TYPES.INVOICE_PAYMENT_FAILED}
SubscriptionTypes == {WEBHOOK_JOB_TYPES.CUSTOMER_SUBSCRIPTION_UPDATED,
                      WEBHOOK_JOB_TYPES.CUSTOMER_SUBSCRIPTION_DELETED}

\* the event a job attempt works on: JSON.parse(payload)
EventOf(a) == JsonParse(a.data.payload)

\* A job attempt moves on to its next database call; applied records that
\* a statement of the attempt has changed a subscription or an order.
Continue(a, pc, changed) ==
  attempts' = (attempts \ {a}) \cup
              {[a EXCEPT !.pc = pc, !.applied = a.applied \/ changed]}

\* The worker takes a waiting job (or a delayed one whose backoff is over).
Deliver(j) ==
  /\ j \in queue
  /\ j.state \in {"waiting", "delayed"}
  /\ Cardinality(attempts) < Concurrency
  /\ queue' = (queue \ {j}) \cup
              {[j EXCEPT !.state = "active"]}
  /\ attempts' = attempts \cup
       {[id |-> j.id, run |-> RunOf(j), lock |-> TRUE,
         attemptsMade |-> j.attemptsMade, data |-> j.data, pc |-> "check",
         found |-> Null, applied |-> FALSE]}
  /\ out' = NoOut
  /\ UNCHANGED <<config, stripeEvents, nextId, domain, calls, rep>>

\* The lock of an active job expires while its attempt is still running: the
\* queue puts the job back to wait, or fails it when it stalled before.
Stall(a) ==
  /\ a \in attempts
  /\ a.lock
  /\ queue' = {IF j.id = a.id /\ j.state = "active"
               THEN IF j.stalledCounter < MaxStalledCount
                    THEN [j EXCEPT !.state = "waiting",
                                   !.stalledCounter = j.stalledCounter + 1]
                    ELSE [j EXCEPT !.state = "failed"]
               ELSE j : j \in queue}
  /\ attempts' = (attempts \ {a}) \cup {[a EXCEPT !.lock = FALSE]}
  /\ out' = NoOut
  /\ UNCHANGED <<config, stripeEvents, nextId, domain, calls, rep>>

\* removeOnComplete / removeOnFail: a finished job is removed when its
\* retention (a day, a week) is over, long after its attempts ended
Purge(j) ==
  /\ j \in queue
  /\ j.state \in {"completed", "failed"}
  /\ \A a \in attempts : a.id # j.id
  /\ queue' = queue \ {j}
  /\ out' = NoOut
  /\ UNCHANGED <<config, stripeEvents, nextId, domain, calls, rep, attempts>>

\* processJob returned: the worker completes the job it holds the lock of
CompletedQueue(q, a) ==
  {IF a.lock /\ j.id = a.id /\ j.state = "active"
   THEN [j EXCEPT !.state = "completed"]
   ELSE j : j \in q}

\* a queue that grants one attempt more than the job options ask for
FailedQueue_OneMore(q, a) ==
  {IF a.lock /\ j.id = a.id /\ j.state = "active"
   THEN [j EXCEPT !.attemptsMade = j.attemptsMade + 1,
                  !.state = IF j.attemptsMade + 1 >= Attempts + 1
                            THEN "failed" ELSE "delayed"]
   ELSE j : j \in q}

\* a queue that never takes a job back from a worker whose attempt threw
FailedQueue_NoRelease(q, a) == q

\* processJob threw: the worker counts the attempt and retries the job after
\* a backoff, or parks it in the failed set after the last attempt
FailedQueue(q, a) ==
  {IF a.lock /\ j.id = a.id /\ j.state = "active"
   THEN [j EXCEPT !.attemptsMade = j.attemptsMade + 1,
                  !.state = IF j.attemptsMade + 1 >= Attempts
                            THEN "failed" ELSE "delayed"]
   ELSE j : j \in q}

\* a catch block that also blanks the stored payload
ErrorData_DropsPayload(row, a, message) ==
  [row EXCEPT !.retryCount = a.attemptsMade + 1,
              !.processingError = message,
              !.payload = JsonStringify(NoEvent)]

\* a catch block that records the message but leaves the count alone
ErrorData_KeepCount(row, a, message) ==
  [row EXCEPT !.processingError = message]

\* the catch block of processJob: the error write, then the re-throw
ErrorData(row, a, message) ==
  [row EXCEPT !.retryCount = a.attemptsMade + 1,
              !.processingError = message]

FailAttempt(a, message) ==
  /\ stripeEvents' = UpdateById(stripeEvents, a.data.eventId,
                     [row \in stripeEvents |-> ErrorData(row, a, message)])
  /\ queue' = FailedQueue(queue, a)
  /\ attempts' = attempts \ {a}
  /\ out' = Out("processJob", a.pc, a.id, NoSig, "failed",
                FindByStripeEventId(stripeEvents', a.id))
  /\ UNCHANGED <<config, nextId, domain, calls, rep>>

\* a worker that never looks at the processed flag
AlreadyProcessed_Never(existingEvent) == FALSE

\* the first statement of the transaction: is the event already processed?
AlreadyProcessed(existingEvent) ==
  existingEvent # NoRow /\ existingEvent.processed

\* a dispatcher that has no default case and takes every type that is not an
\* invoice type for a subscription type
FirstStep_NoDefault(event) ==
  IF event.type \in InvoiceTypes
  THEN IF MerchantOf(event.customer) = Null THEN "commit"
       ELSE IF event.subscription # Null THEN "sub" ELSE "order"
  ELSE "sub"

\* invoice handlers that go on without a merchant
FirstStep_NoMerchantCheck(event) ==
  IF event.type \in InvoiceTypes
  THEN IF event.subscription # Null THEN "sub" ELSE "order"
  ELSE IF event.type \in SubscriptionTypes THEN "sub"
       ELSE "commit"

\* where processEventByType and the handler go first
FirstStep(event) ==
  IF event.type \in InvoiceTypes
  THEN IF MerchantOf(event.customer) = Null THEN "commit"
       ELSE IF event.subscription # Null THEN "sub" ELSE "order"
  ELSE IF event.type \in SubscriptionTypes THEN "sub"
       ELSE "commit"

AttemptCheck(a) ==
  /\ a \in attempts
  /\ a.pc = "check"
  /\ LET existingEvent ==
           FindByStripeEventId(stripeEvents, a.data.stripeEventId)
     IN  IF AlreadyProcessed(existingEvent)
         THEN \* job_skipped_already_processed
              /\ queue' = CompletedQueue(queue, a)
              /\ attempts' = attempts \ {a}
              /\ out' = Out("processJob", "skipped", a.id, NoSig, "completed",
                            existingEvent)
         ELSE /\ Continue(a, FirstStep(EventOf(a)), FALSE)
              /\ out' = NoOut
              /\ UNCHANGED queue
  /\ UNCHANGED <<config, stripeEvents, nextId, domain, calls, rep>>

\* merchantsService.updateSubscriptionStatus, called by each handler
AttemptSub(a) ==
  /\ a \in attempts
  /\ a.pc = "sub"
  /\ LET event == EventOf(a)
         sid == SubscriptionIdOf(event)
     IN  /\ subscriptions' =
              UpdateSubscriptionStatus(subscriptions, sid,
                                       SubscriptionStatusOf(event),
                                       AdditionalDataOf(event,
                                                        Stamp(a.id, a.run)))
         /\ Continue(a, IF event.type \in InvoiceTypes THEN "order"
                        ELSE "commit",
                     subscriptions' # subscriptions)
  /\ out' = NoOut
  /\ UNCHANGED <<config, stripeEvents, nextId, queue, orders, calls, rep>>

\* ordersService.getOrderByInvoiceId(invoice.id)
AttemptOrder(a) ==
  /\ a \in attempts
  /\ a.pc = "order"
  /\ LET event == EventOf(a)
         order == OrderByInvoiceId(orders, event.invoice)
     IN  Continue(a,
                  IF order # Null THEN "ordr"
                  ELSE IF event.type =
                            WEBHOOK_JOB_TYPES.INVOICE_PAYMENT_SUCCEEDED
                       THEN "link" ELSE "commit",
                  FALSE)
  /\ out' = NoOut
  /\ UNCHANGED <<config, stripeEvents, nextId, queue, domain, calls, rep>>

\* findAndLinkOrderToInvoice: the findFirst
AttemptLink(a) ==
  /\ a \in attempts
  /\ a.pc = "link"
  /\ LET event == EventOf(a)
         pendingOrder == FindPendingOrder(orders, MerchantOf(event.customer),
                                          event.amount_paid)
     IN  attempts' = (attempts \ {a}) \cup
           {[a EXCEPT !.pc = IF pendingOrder = Null THEN "commit"
                              ELSE "linkw",
                      !.found = pendingOrder]}
  /\ out' = NoOut
  /\ UNCHANGED <<config, stripeEvents, nextId, queue, domain, calls, rep>>

\* findAndLinkOrderToInvoice: the update that sets stripeInvoiceId; the
\* column is unique, so an invoice another order carries is rejected
AttemptLinkWrite(a) ==
  /\ a \in attempts
  /\ a.pc = "linkw"
  /\ LET event == EventOf(a)
         holder == OrderByInvoiceId(orders, event.invoice)
     IN  IF holder # Null /\ holder # a.found
         THEN FailAttempt(a, "Unique constraint failed")
         ELSE /\ orders' = [orders EXCEPT
                              ![a.found].stripeInvoiceId = event.invoice]
              /\ Continue(a, "ordr", orders' # orders)
              /\ out' = NoOut
              /\ UNCHANGED <<config, stripeEvents, nextId, queue,
                             subscriptions, calls, rep>>

\* markOrderAsPaid / markOrderAsPaymentFailed: the findUnique and the
\* idempotency skip
AttemptOrderRead(a) ==
  /\ a \in attempts
  /\ a.pc = "ordr"
  /\ LET event == EventOf(a)
         order == OrderByInvoiceId(orders, event.invoice)
         skip == IF order = Null THEN TRUE
                 ELSE IF event.type =
                           WEBHOOK_JOB_TYPES.INVOICE_PAYMENT_SUCCEEDED
                      THEN SkipsPaid(orders[order].status)
                      ELSE SkipsFailed(orders[order].status)
     IN  Continue(a, IF skip THEN "commit" ELSE "ordw", FALSE)
  /\ out' = NoOut
  /\ UNCHANGED <<config, stripeEvents, nextId, queue, domain, calls, rep>>

\* markOrderAsPaid / markOrderAsPaymentFailed: the update by stripeInvoiceId,
\* which is rejected when no order carries the invoice any more
AttemptOrderWrite(a) ==
  /\ a \in attempts
  /\ a.pc = "ordw"
  /\ LET event == EventOf(a)
         order == OrderByInvoiceId(orders, event.invoice)
     IN  IF order = Null
         THEN FailAttempt(a, "Record to update not found")
         ELSE /\ orders' =
                   [orders EXCEPT ![order] =
                      IF event.type =
                           WEBHOOK_JOB_TYPES.INVOICE_PAYMENT_SUCCEEDED
                      THEN PaidData(orders[order], Stamp(a.id, a.run))
                      ELSE FailedData(orders[order], Stamp(a.id, a.run),
                                      ExtractFailureReason(event))]
              /\ Continue(a, "commit", orders' # orders)
              /\ out' = NoOut
              /\ UNCHANGED <<config, stripeEvents, nextId, queue,
                             subscriptions, calls, rep>>

\* a final update that also clears the last error
ProcessedData_ClearsError(row, a) ==
  [row EXCEPT !.processed = TRUE, !.processedAt = Stamp(a.id, a.run),
              !.retryCount = a.attemptsMade, !.processingError = Null]

\* a final update that sets the flag without the time
ProcessedData_NoTimestamp(row, a) ==
  [row EXCEPT !.processed = TRUE, !.retryCount = a.attemptsMade]

\* a final update that records the time and the count but not the flag
ProcessedData_NoFlag(row, a) ==
  [row EXCEPT !.processedAt = Stamp(a.id, a.run),
              !.retryCount = a.attemptsMade]

\* a mark-processed update that counts the successful attempt as a retry
ProcessedData_CountsSuccess(row, a) ==
  [row EXCEPT !.processed = TRUE, !.processedAt = Stamp(a.id, a.run),
              !.retryCount = a.attemptsMade + 1]

\* the data of the mark-processed update
ProcessedData(row, a) ==
  [row EXCEPT !.processed = TRUE, !.processedAt = Stamp(a.id, a.run),
              !.retryCount = a.attemptsMade]

\* tx.stripeEvent.update marks the event processed and the transaction
\* commits; processJob returns
AttemptCommit(a) ==
  /\ a \in attempts
  /\ a.pc = "commit"
  /\ stripeEvents' = UpdateById(stripeEvents, a.data.eventId,
                     [row \in stripeEvents |-> ProcessedData(row, a)])
  /\ queue' = CompletedQueue(queue, a)
  /\ attempts' = attempts \ {a}
  /\ out' = Out("processJob", "commit", a.id, NoSig, "completed",
                FindByStripeEventId(stripeEvents', a.id))
  /\ UNCHANGED <<config, nextId, domain, calls, rep>>

\* A database call of the attempt is rejected (the store is unavailable): the
\* transaction rolls back and the catch block runs.
AttemptThrow(a) ==
  /\ a \in attempts
  /\ FailAttempt(a, "Database unavailable")

\* WebhooksService.getEvent behind GET /webhooks/events/:id: the result of
\* findUnique is returned as it is, the row or null, and the call never throws
GetEvent(eid) ==
  /\ out' = Out("getEvent", "call", eid, NoSig, "ok",
                FindByStripeEventId(stripeEvents, eid))
  /\ UNCHANGED <<config, stripeEvents, nextId, queue, domain, calls, rep,
                 attempts>>

\* ------------------------------------------------------------------------
\* Initial state and next-state relation
\* ------------------------------------------------------------------------
\* The provider's events: a payment that succeeds and one that fails for the
\* same invoice of the same subscription.  A behaviour of Spec follows one
\* event through ingestion, queueing, delivery and processing.
PaymentSucceeded ==
  InvoiceEvent("evt_1", WEBHOOK_JOB_TYPES.INVOICE_PAYMENT_SUCCEEDED,
               "cus_1", "sub_1", "in_1", 2999, 1, 2, NoFinErr, NoCharge)

PaymentFailed ==
  InvoiceEvent("evt_2", WEBHOOK_JOB_TYPES.INVOICE_PAYMENT_FAILED,
               "cus_1", "sub_1", "in_1", 0, 0, 0, NoFinErr,
               [kind |-> "object",
                failure_message |-> "Your card was declined."])

\* an event of a type processEventByType has no case for
UnknownEvent ==
  StripeEvent("evt_4", "customer.created", "cus_1", Null, Null, 0, 0, 0,
              NoFinErr, NoCharge, Null, Null, 0, 0, 0, Null)

\* the catalog of the events in es, keyed by their ids
CatalogOf(es) ==
  [eid \in {e.id : e \in es} |-> CHOOSE e \in es : e.id = eid]

SubscriptionUpdated ==
  SubscriptionEvent("evt_3", WEBHOOK_JOB_TYPES.CUSTOMER_SUBSCRIPTION_UPDATED,
                    "sub_1", "active", 1, 2, 0, "false")

SubscriptionDeleted ==
  SubscriptionEvent("evt_5", WEBHOOK_JOB_TYPES.CUSTOMER_SUBSCRIPTION_DELETED,
                    "sub_1", "canceled", 1, 2, 3, "false")

NewSubscription ==
  [status |-> "incomplete", currentPeriodStart |-> NoStamp,
   currentPeriodEnd |-> NoStamp, canceledAt |-> NoStamp,
   cancelAtPeriodEnd |-> "false"]

NewOrder(merchantId, amount, invoiceId, createdAt) ==
  [merchantId |-> merchantId, amount |-> amount,
   status |-> OrderStatus.PENDING, stripeInvoiceId |-> invoiceId,
   paidAt |-> NoStamp, failedAt |-> NoStamp, failureReason |-> Null,
   createdAt |-> createdAt]

\* the signatures a request for event eid may carry: the provider's, a
\* forger's, and the provider's signature of another payload
Signatures(eid) ==
  {Sign(PayloadOf(eid), GoodSecret), Sign(PayloadOf(eid), BadSecret)}
  \cup {Sign(PayloadOf(other), GoodSecret) : other \in EventIds \ {eid}}

\* the state after construction: empty event store and queue, no call and no
\* job attempt in flight
Start ==
  /\ stripeEvents = {}
  /\ nextId = 1
  /\ queue = {}
  /\ calls = EmptyBag
  /\ rep = IdleRep
  /\ attempts = {}
  /\ out = NoOut

\* no result is waiting to be taken: the next step can run
Ready == out = NoOut

\* the caller takes the result of the last step
Observe ==
  /\ out # NoOut
  /\ out' = NoOut
  /\ UNCHANGED <<config, stripeEvents, nextId, queue, domain, calls, rep,
                 attempts>>

\* Spec: ingestion, the queue and the worker around one subscription event.
\* Ingest calls of two concurrent callers, manual reprocessing, delivery with
\* retries, failing attempts and the retention of finished jobs interleave.
Init ==
  /\ Start
  /\ webhookSecret \in {GoodSecret, Null}
  /\ catalog = CatalogOf({SubscriptionUpdated})
  /\ merchants = [c \in {"cus_1"} |-> "m_1"]
  /\ subscriptions = [s \in {"sub_1"} |-> NewSubscription]
  /\ orders = [o \in {"ord_1"} |-> NewOrder("m_1", 2999, Null, 1)]

Next ==
  \/ \E eid \in EventIds : \E sig \in Signatures(eid) :
       Ready /\ WebhookCall(eid, sig)
  \/ \E c \in BagToSet(calls), queueUp \in BOOLEAN :
       Ready /\ WebhookJobExists(c, queueUp)
  \/ \E c \in BagToSet(calls), queueUp \in BOOLEAN :
       Ready /\ WebhookReenqueue(c, queueUp)
  \/ \E c \in BagToSet(calls) : Ready /\ WebhookCreate(c)
  \/ \E c \in BagToSet(calls), queueUp \in BOOLEAN :
       Ready /\ WebhookEnqueue(c, queueUp)
  \/ \E eid \in EventIds : Ready /\ ReprocessCall(eid)
  \/ \E queueUp \in BOOLEAN : Ready /\ ReprocessEnqueue(queueUp)
  \/ \E j \in queue : Ready /\ Deliver(j)
  \/ \E j \in queue : Ready /\ Purge(j)
  \/ \E a \in attempts : Ready /\ AttemptCheck(a)
  \/ \E a \in attempts : Ready /\ AttemptSub(a)
  \/ \E a \in attempts : Ready /\ AttemptCommit(a)
  \/ \E a \in attempts : Ready /\ AttemptThrow(a)
  \/ Observe

Spec == Init /\ [][Next]_vars

\* SpecWorker: the worker pool on a payment event with a subscription and an
\* order.  The event has been ingested: its row is stored and its job waits.
\* Attempts fail, and a job whose lock expires is delivered again while its
\* first attempt still runs.
InitWorker ==
  /\ webhookSecret = GoodSecret
  /\ merchants = [c \in {"cus_1"} |-> "m_1"]
  /\ subscriptions = [s \in {"sub_1"} |-> NewSubscription]
  /\ \E invoiceId \in {"in_1", Null} :
       orders = [o \in {"ord_1"} |-> NewOrder("m_1", 2999, invoiceId, 1)]
  /\ \E event \in {PaymentSucceeded, UnknownEvent} :
       /\ catalog = CatalogOf({event})
       /\ stripeEvents = {NewRow(1, event)}
       /\ queue = QueueAdd({}, JobData(NewRow(1, event), event.type, 0))
  /\ nextId = 2
  /\ calls = EmptyBag
  /\ rep = IdleRep
  /\ attempts = {}
  /\ out = NoOut

NextWorker ==
  \/ \E j \in queue : Ready /\ Deliver(j)
  \/ \E a \in attempts : Ready /\ Stall(a)
  \/ \E a \in attempts : Ready /\ AttemptCheck(a)
  \/ \E a \in attempts : Ready /\ AttemptSub(a)
  \/ \E a \in attempts : Ready /\ AttemptOrder(a)
  \/ \E a \in attempts : Ready /\ AttemptLink(a)
  \/ \E a \in attempts : Ready /\ AttemptLinkWrite(a)
  \/ \E a \in attempts : Ready /\ AttemptOrderRead(a)
  \/ \E a \in attempts : Ready /\ AttemptOrderWrite(a)
  \/ \E a \in attempts : Ready /\ AttemptCommit(a)
  \/ \E a \in attempts : Ready /\ AttemptThrow(a)
  \/ Observe

SpecWorker == InitWorker /\ [][NextWorker]_vars

\* The worker runs for as long as the service does: a job that waits is taken,
\* an attempt that can take its next step takes it, and a result is taken by
\* its caller.  Nothing obliges a call of the store to fail or a lock to
\* expire, so AttemptThrow and Stall are left without fairness.
WorkerFairness ==
  /\ WF_vars(\E j \in queue : Ready /\ Deliver(j))
  /\ WF_vars(\E a \in attempts : Ready /\ AttemptCheck(a))
  /\ WF_vars(\E a \in attempts : Ready /\ AttemptSub(a))
  /\ WF_vars(\E a \in attempts : Ready /\ AttemptOrder(a))
  /\ WF_vars(\E a \in attempts : Ready /\ AttemptLink(a))
  /\ WF_vars(\E a \in attempts : Ready /\ AttemptLinkWrite(a))
  /\ WF_vars(\E a \in attempts : Ready /\ AttemptOrderRead(a))
  /\ WF_vars(\E a \in attempts : Ready /\ AttemptOrderWrite(a))
  /\ WF_vars(\E a \in attempts : Ready /\ AttemptCommit(a))
  /\ WF_vars(Observe)

SpecWorkerFair == SpecWorker /\ WorkerFairness

\* SpecInvoice: the worker pool on the two payment events of one invoice, a
\* failed payment and a succeeded one.  Both events have been ingested: their
\* rows are stored and their jobs wait.  The pool takes the jobs in any order
\* and works on them at the same time.
InitInvoice ==
  /\ webhookSecret = GoodSecret
  /\ catalog = CatalogOf({PaymentSucceeded, PaymentFailed})
  /\ merchants = [c \in {"cus_1"} |-> "m_1"]
  /\ subscriptions = [s \in {"sub_1"} |-> NewSubscription]
  /\ \E invoiceId \in {"in_1", Null} :
       orders = [o \in {"ord_1"} |-> NewOrder("m_1", 2999, invoiceId, 1)]
  /\ stripeEvents = {NewRow(1, PaymentFailed), NewRow(2, PaymentSucceeded)}
  /\ nextId = 3
  /\ queue =
       QueueAdd(QueueAdd({}, JobData(NewRow(1, PaymentFailed),
                                     PaymentFailed.type, 0)),
                JobData(NewRow(2, PaymentSucceeded),
                        PaymentSucceeded.type, 0))
  /\ calls = EmptyBag
  /\ rep = IdleRep
  /\ attempts = {}
  /\ out = NoOut

NextInvoice ==
  \/ \E j \in queue : Ready /\ Deliver(j)
  \/ \E a \in attempts : Ready /\ AttemptCheck(a)
  \/ \E a \in attempts : Ready /\ AttemptSub(a)
  \/ \E a \in attempts : Ready /\ AttemptOrder(a)
  \/ \E a \in attempts : Ready /\ AttemptLink(a)
  \/ \E a \in attempts : Ready /\ AttemptLinkWrite(a)
  \/ \E a \in attempts : Ready /\ AttemptOrderRead(a)
  \/ \E a \in attempts : Ready /\ AttemptOrderWrite(a)
  \/ \E a \in attempts : Ready /\ AttemptCommit(a)
  \/ \E a \in attempts : Ready /\ AttemptThrow(a)
  \/ Observe

SpecInvoice == InitInvoice /\ [][NextInvoice]_vars

\* SpecInTurn: the same two events, processed one after the other: the worker
\* takes the next job when no attempt is in flight.  The jobs are taken in
\* either order, and a failed attempt's retry may come after the other job.
DeliverInTurn(j) ==
  /\ attempts = {}
  /\ Deliver(j)

NextInTurn ==
  \/ \E j \in queue : Ready /\ DeliverInTurn(j)
  \/ \E a \in attempts : Ready /\ AttemptCheck(a)
  \/ \E a \in attempts : Ready /\ AttemptSub(a)
  \/ \E a \in attempts : Ready /\ AttemptOrder(a)
  \/ \E a \in attempts : Ready /\ AttemptLink(a)
  \/ \E a \in attempts : Ready /\ AttemptLinkWrite(a)
  \/ \E a \in attempts : Ready /\ AttemptOrderRead(a)
  \/ \E a \in attempts : Ready /\ AttemptOrderWrite(a)
  \/ \E a \in attempts : Ready /\ AttemptCommit(a)
  \/ \E a \in attempts : Ready /\ AttemptThrow(a)
  \/ Observe

SpecInTurn == InitInvoice /\ [][NextInTurn]_vars

\* SpecLink: the worker on a succeeded payment of an invoice that no order
\* references.  The order table holds two orders, created at different times,
\* of either merchant and either amount, pending or already paid for another
\* invoice, linked to another invoice or not.
OrdersToLink ==
  LET Pending(inv, t) ==
        {NewOrder(m, amt, i, t) :
           m \in {"m_1", "m_2"}, amt \in {2999, 4999}, i \in {Null, inv}}
      Paid(inv, t) ==
        {PaidData(NewOrder(m, amt, inv, t), Stamp("evt_0", 1)) :
           m \in {"m_1", "m_2"}, amt \in {2999, 4999}}
      Rows(inv, t) == Pending(inv, t) \cup Paid(inv, t)
  IN  UNION {{[o \in {"ord_1", "ord_2"} |->
                 IF o = "ord_1" THEN r1 ELSE r2] :
                r1 \in Rows("in_8", t), r2 \in Rows("in_9", 3 - t)} :
             t \in {1, 2}}

InitLink ==
  /\ webhookSecret = GoodSecret
  /\ catalog = CatalogOf({PaymentSucceeded})
  /\ merchants = [c \in {"cus_1"} |-> "m_1"]
  /\ subscriptions = [s \in {"sub_1"} |-> NewSubscription]
  /\ orders \in OrdersToLink
  /\ stripeEvents = {NewRow(1, PaymentSucceeded)}
  /\ nextId = 2
  /\ queue = QueueAdd({}, JobData(NewRow(1, PaymentSucceeded),
                                  PaymentSucceeded.type, 0))
  /\ calls = EmptyBag
  /\ rep = IdleRep
  /\ attempts = {}
  /\ out = NoOut

SpecLink == InitLink /\ [][NextInvoice]_vars

\* SpecHandlers: one event of a recognized type whose customer, subscription
\* and invoice are known locally or not, processed by the worker.  The
\* merchant of cus_1 has the subscription sub_1, an order billed by invoice
\* in_1 and a pending order no invoice is linked to.
HandlerEvents ==
  {[e EXCEPT !.customer = c, !.subscription = sid, !.invoice = i] :
     e \in {PaymentSucceeded, PaymentFailed}, c \in {"cus_1", "cus_9"},
     sid \in {"sub_1", "sub_9"}, i \in {"in_1", "in_9"}}
  \cup {[e EXCEPT !.sub = sid] :
           e \in {SubscriptionUpdated, SubscriptionDeleted},
           sid \in {"sub_1", "sub_9"}}

InitHandlers ==
  /\ webhookSecret = GoodSecret
  /\ merchants = [c \in {"cus_1"} |-> "m_1"]
  /\ subscriptions = [s \in {"sub_1"} |-> NewSubscription]
  /\ \E amount \in {2999, 4999} :
       orders = [o \in {"ord_1", "ord_2"} |->
                   IF o = "ord_1" THEN NewOrder("m_1", 2999, "in_1", 1)
                   ELSE NewOrder("m_1", amount, Null, 2)]
  /\ \E event \in HandlerEvents :
       /\ catalog = CatalogOf({event})
       /\ stripeEvents = {NewRow(1, event)}
       /\ queue = QueueAdd({}, JobData(NewRow(1, event), event.type, 0))
  /\ nextId = 2
  /\ calls = EmptyBag
  /\ rep = IdleRep
  /\ attempts = {}
  /\ out = NoOut

SpecHandlers == InitHandlers /\ [][NextInvoice]_vars
\* SpecTwice: the provider sends the same content twice, as two events that
\* differ in their ids only; the worker processes one job at a time.  The
\* subscription and the first order start in any of several states; the
\* second order is pending and unlinked.
TwiceEvents ==
  {PaymentSucceeded, PaymentFailed, SubscriptionUpdated, SubscriptionDeleted}

Again(event) == [event EXCEPT !.id = "evt_9"]

InitTwice ==
  /\ webhookSecret = GoodSecret
  /\ merchants = [c \in {"cus_1"} |-> "m_1"]
  /\ \E status \in {"incomplete", "active", "canceled"} :
       subscriptions =
         [s \in {"sub_1"} |-> [NewSubscription EXCEPT !.status = status]]
  /\ \E invoiceId \in {"in_1", Null} :
     \E status \in {OrderStatus.PENDING, OrderStatus.PAID,
                     OrderStatus.PAYMENT_FAILED} :
       orders = [o \in {"ord_1", "ord_2"} |->
                   IF o = "ord_1"
                   THEN [NewOrder("m_1", 2999, invoiceId, 1)
                           EXCEPT !.status = status]
                   ELSE NewOrder("m_1", 2999, Null, 2)]
  /\ \E event \in TwiceEvents :
       /\ catalog = CatalogOf({event, Again(event)})
       /\ stripeEvents = {NewRow(1, event), NewRow(2, Again(event))}
       /\ queue =
            QueueAdd(QueueAdd({}, JobData(NewRow(1, event), event.type, 0)),
                     JobData(NewRow(2, Again(event)), event.type, 0))
  /\ nextId = 3
  /\ calls = EmptyBag
  /\ rep = IdleRep
  /\ attempts = {}
  /\ out = NoOut

SpecTwice == InitTwice /\ [][NextInTurn]_vars
\* SpecReason: a payment-failed event whose invoice carries a finalization
\* error or not, with a message or an empty one, and a charge that is absent,
\* an id or an expanded object with or without a failure message; the order
\* of its invoice is pending.
ReasonEvents ==
  {[PaymentFailed EXCEPT !.last_finalization_error = fin, !.charge = ch] :
     fin \in {NoFinErr, [present |-> TRUE, message |-> ""],
              [present |-> TRUE, message |-> "Invoice not finalized."]},
     ch \in {NoCharge, [kind |-> "id", failure_message |-> ""],
             [kind |-> "object", failure_message |-> ""],
             [kind |-> "object",
              failure_message |-> "Your card was declined."]}}

InitReason ==
  /\ webhookSecret = GoodSecret
  /\ merchants = [c \in {"cus_1"} |-> "m_1"]
  /\ subscriptions = [s \in {"sub_1"} |-> NewSubscription]
  /\ orders = [o \in {"ord_1"} |-> NewOrder("m_1", 2999, "in_1", 1)]
  /\ \E event \in ReasonEvents :
       /\ catalog = CatalogOf({event})
       /\ stripeEvents = {NewRow(1, event)}
       /\ queue = QueueAdd({}, JobData(NewRow(1, event), event.type, 0))
  /\ nextId = 2
  /\ calls = EmptyBag
  /\ rep = IdleRep
  /\ attempts = {}
  /\ out = NoOut

NextReason ==
  \/ \E j \in queue : Ready /\ Deliver(j)
  \/ \E a \in attempts : Ready /\ AttemptCheck(a)
  \/ \E a \in attempts : Ready /\ AttemptSub(a)
  \/ \E a \in attempts : Ready /\ AttemptOrder(a)
  \/ \E a \in attempts : Ready /\ AttemptOrderRead(a)
  \/ \E a \in attempts : Ready /\ AttemptOrderWrite(a)
  \/ \E a \in attempts : Ready /\ AttemptCommit(a)
  \/ \E a \in attempts : Ready /\ AttemptThrow(a)
  \/ Observe

SpecReason == InitReason /\ [][NextReason]_vars
\* SpecSync: a subscription-updated event that reports a status and carries
\* each of its period bounds and its cancellation time or not, for a
\* subscription stored in any status, with or without bounds and a
\* cancellation time of its own.
SyncEvents ==
  {[SubscriptionUpdated EXCEPT !.status = st, !.current_period_start = cps,
                               !.current_period_end = cpe,
                               !.canceled_at = cat] :
     st \in {"active", "past_due", "canceled"}, cps \in {0, 1},
     cpe \in {0, 2}, cat \in {0, 3}}

StoredSubscriptions ==
  {[NewSubscription EXCEPT !.status = st, !.currentPeriodStart = cps,
                           !.currentPeriodEnd = cpe, !.canceledAt = cat] :
     st \in {"incomplete", "active", "past_due", "canceled"},
     cps \in {NoStamp, DateOf(5)}, cpe \in {NoStamp, DateOf(6)},
     cat \in {NoStamp, DateOf(7)}}

InitSync ==
  /\ webhookSecret = GoodSecret
  /\ merchants = [c \in {"cus_1"} |-> "m_1"]
  /\ \E stored \in StoredSubscriptions :
       subscriptions = [s \in {"sub_1"} |-> stored]
  /\ orders = [o \in {"ord_1"} |-> NewOrder("m_1", 2999, Null, 1)]
  /\ \E event \in SyncEvents :
       /\ catalog = CatalogOf({event})
       /\ stripeEvents = {NewRow(1, event)}
       /\ queue = QueueAdd({}, JobData(NewRow(1, event), event.type, 0))
  /\ nextId = 2
  /\ calls = EmptyBag
  /\ rep = IdleRep
  /\ attempts = {}
  /\ out = NoOut

NextSync ==
  \/ \E j \in queue : Ready /\ Deliver(j)
  \/ \E a \in attempts : Ready /\ AttemptCheck(a)
  \/ \E a \in attempts : Ready /\ AttemptSub(a)
  \/ \E a \in attempts : Ready /\ AttemptCommit(a)
  \/ \E a \in attempts : Ready /\ AttemptThrow(a)
  \/ Observe

SpecSync == InitSync /\ [][NextSync]_vars
\* SpecRace: two payment-succeeded events for two invoices of the same
\* merchant and the same amount, both queued and processed by the worker
\* pool at the same time, while one pending order of that amount waits for
\* an invoice.
OtherInvoicePaid ==
  [PaymentSucceeded EXCEPT !.id = "evt_9", !.invoice = "in_2"]

InitRace ==
  /\ webhookSecret = GoodSecret
  /\ catalog = CatalogOf({PaymentSucceeded, OtherInvoicePaid})
  /\ merchants = [c \in {"cus_1"} |-> "m_1"]
  /\ subscriptions = [s \in {"sub_1"} |-> NewSubscription]
  /\ orders = [o \in {"ord_1"} |-> NewOrder("m_1", 2999, Null, 1)]
  /\ stripeEvents = {NewRow(1, PaymentSucceeded), NewRow(2, OtherInvoicePaid)}
  /\ nextId = 3
  /\ queue =
       QueueAdd(QueueAdd({}, JobData(NewRow(1, PaymentSucceeded),
                                     PaymentSucceeded.type, 0)),
                JobData(NewRow(2, OtherInvoicePaid),
                        OtherInvoicePaid.type, 0))
  /\ calls = EmptyBag
  /\ rep = IdleRep
  /\ attempts = {}
  /\ out = NoOut

SpecRace == InitRace /\ [][NextInvoice]_vars
\* SpecLookup: the lookup of an event next to its ingestion and processing.
NextLookup ==
  \/ \E eid \in EventIds : \E sig \in Signatures(eid) :
       Ready /\ WebhookCall(eid, sig)
  \/ \E c \in BagToSet(calls), queueUp \in BOOLEAN :
       Ready /\ WebhookJobExists(c, queueUp)
  \/ \E c \in BagToSet(calls), queueUp \in BOOLEAN :
       Ready /\ WebhookReenqueue(c, queueUp)
  \/ \E c \in BagToSet(calls) : Ready /\ WebhookCreate(c)
  \/ \E c \in BagToSet(calls), queueUp \in BOOLEAN :
       Ready /\ WebhookEnqueue(c, queueUp)
  \/ \E eid \in EventIds : Ready /\ GetEvent(eid)
  \/ \E j \in queue : Ready /\ Deliver(j)
  \/ \E a \in attempts : Ready /\ AttemptCheck(a)
  \/ \E a \in attempts : Ready /\ AttemptSub(a)
  \/ \E a \in attempts : Ready /\ AttemptCommit(a)
  \/ \E a \in attempts : Ready /\ AttemptThrow(a)
  \/ Observe

SpecLookup == Init /\ [][NextLookup]_vars

\* ------------------------------------------------------------------------
\* Properties
\* ------------------------------------------------------------------------
\* the rows stored for a provider event id, and the jobs queued for it
RowsOf(eid) == {row \in stripeEvents : row.stripeEventId = eid}
JobsOf(eid) == {j \in queue : j.data.stripeEventId = eid}
LiveJobsOf(eid) == {j \in JobsOf(eid) : j.state \in LiveStates}

\* the signature is the provider's signature of the payload under the
\* configured secret
Genuine(eid, sig) ==
  webhookSecret # Null /\ sig = Sign(PayloadOf(eid), webhookSecret)

\* the last step answered a handleWebhook call at the given step
Answered(step) == out.op = "handleWebhook" /\ out.step = step

\* C1: in every reachable state the event store holds at most one StoredEvent
\* per provider event id, whatever ingest calls, job attempts and reprocess
\* calls interleaved.
C1_OneRowPerEventId ==
  \A eid \in EventIds : Cardinality(RowsOf(eid)) <= 1

\* two ingest calls of a new event interleaved: both looked the event up
\* before either persisted it, and the second insert was rejected
C1_Witness ==
  /\ Answered("create")
  /\ out.status = "error"
  /\ Cardinality(RowsOf(out.eid)) = 1

\* C2: an ingest call whose signature does not verify (also when no webhook
\* secret is configured) fails with a client error and changes neither the
\* event store nor the queue; the call does not go on.
C2_InvalidSignatureRejected ==
  [][(out'.op = "handleWebhook" /\ out'.step = "call"
        /\ ~Genuine(out'.eid, out'.sig))
     => (out'.status = "bad_request"
           /\ UNCHANGED <<stripeEvents, queue, calls>>)]_vars

\* a forged request was rejected while the store held the event and the queue
\* its job
C2_Witness ==
  /\ Answered("call")
  /\ out.status = "bad_request"
  /\ out.sig = Sign(PayloadOf(out.eid), BadSecret)
  /\ webhookSecret = GoodSecret
  /\ RowsOf(out.eid) # {}
  /\ JobsOf(out.eid) # {}

\* C3 as stated: when a verified event is seen for the first time and the
\* enqueue of its job fails, ingest returns the persisted row as a success,
\* the row exists with processed=false and retryCount=0 and no job for it is
\* in the queue.
C3_Original ==
  Answered("enqueue_failed") =>
    /\ out.status = "ok"
    /\ \E row \in RowsOf(out.eid) :
         row.id = out.row.id /\ ~row.processed /\ row.retryCount = 0
    /\ JobsOf(out.eid) = {}

\* C3 as amended: when a verified event is seen for the first time and the
\* enqueue of its job fails, ingest returns the row it persisted as a success,
\* with processed=false and retryCount=0; the row is in the store and the call
\* leaves the queue as it was (it adds no job).
C3_EnqueueFailureSwallowed ==
  [][(out'.op = "handleWebhook" /\ out'.step = "enqueue_failed")
     => (/\ out'.status = "ok"
         /\ out'.row.stripeEventId = out'.eid
         /\ ~out'.row.processed
         /\ out'.row.retryCount = 0
         /\ \E row \in stripeEvents' :
              row.stripeEventId = out'.eid /\ row.id = out'.row.id
         /\ queue' = queue)]_vars

\* the enqueue of a new event failed and the call returned the row; no job
\* is queued for it
C3_Witness ==
  /\ Answered("enqueue_failed")
  /\ out.status = "ok"
  /\ out.row \in stripeEvents
  /\ JobsOf(out.eid) = {}

\* C4: once the signature is verified and the event is stored, ingestion
\* returns success whatever the queue does, also on a repeated ingest of a
\* stored, unprocessed event whose existence check or re-enqueue fails.
C4_IngestSucceedsOnceStored ==
  (out.op = "handleWebhook"
     /\ out.step \in {"jobExists", "reenqueue", "enqueue", "enqueue_failed"})
  => out.status = "ok"

\* C5: ingesting a verified event whose row has processed=true is a pure
\* read: it returns the existing row, changes no row, enqueues nothing and
\* leaves the queue unchanged.
C5_ProcessedIngestIsPureRead ==
  [][(out'.op = "handleWebhook" /\ out'.step = "call"
        /\ Genuine(out'.eid, out'.sig)
        /\ \E row \in RowsOf(out'.eid) : row.processed)
     => (/\ out'.status = "ok"
         /\ out'.row \in RowsOf(out'.eid)
         /\ UNCHANGED <<stripeEvents, queue, calls>>)]_vars

\* a verified ingest of a processed event returned its row
C5_Witness ==
  /\ Answered("call")
  /\ out.status = "ok"
  /\ out.row.processed
  /\ out.row \in stripeEvents

\* C6: at any time the queue holds at most one live (waiting, active or
\* delayed) job per provider event id; an enqueue for an id that has a job
\* adds no second one.
C6_OneLiveJobPerKey ==
  \A eid \in EventIds : Cardinality(LiveJobsOf(eid)) <= 1

\* a manual reprocess enqueued while the job of the event was being
\* processed, and the queue still holds that one job
C6_Witness ==
  /\ out.op = "reprocessEvent"
  /\ out.step = "enqueue"
  /\ out.status = "ok"
  /\ \E j \in JobsOf(out.eid) : j.state = "active"
  /\ Cardinality(JobsOf(out.eid)) = 1

\* the stored event a job attempt works on is marked processed
EventProcessed(a) ==
  \E row \in stripeEvents : row.id = a.data.eventId /\ row.processed

\* C7: two simultaneous deliveries of jobs for the same event make exactly
\* one domain mutation: of two attempts in flight for one event, at most one
\* has changed a subscription or an order.
C7_OneMutationPerEvent ==
  \A a \in attempts, b \in attempts :
    (a # b /\ a.data.eventId = b.data.eventId) => ~(a.applied /\ b.applied)

\* C8: when a processing attempt fails, every subscription and order change
\* it made is rolled back: an attempt that ends in failure has left no change
\* of its own in the domain tables.
C8_FailedAttemptRolledBack ==
  [][\A a \in attempts :
       (a \notin attempts' /\ out'.op = "processJob" /\ out'.status = "failed"
          /\ out'.eid = a.id /\ out'.step = a.pc)
       => ~a.applied]_vars

\* C9: the domain changes of a job and the marking of its event as processed
\* become visible together: while an attempt is in flight and its event is
\* not marked processed, no subscription or order change of that attempt is
\* visible.
C9_ChangesVisibleWithProcessed ==
  \A a \in attempts : ~EventProcessed(a) => ~a.applied

\* this step is the first database call (the processed check) of attempt a:
\* a leaves its place, and neither by a failure nor by losing its lock
TakesCheck(a) ==
  /\ a.pc = "check"
  /\ a \notin attempts'
  /\ [a EXCEPT !.lock = FALSE] \notin attempts'
  /\ out'.status # "failed"

\* C10: delivering a job whose event already has processed=true is a
\* successful no-op: the handler is not run, no subscription, order or stored
\* event changes, and the job completes without error.
C10_ProcessedDeliveryIsNoOp ==
  [][\A a \in attempts :
       (TakesCheck(a) /\ EventProcessed(a))
       => (/\ out'.op = "processJob"
           /\ out'.step = "skipped"
           /\ out'.status = "completed"
           /\ UNCHANGED <<stripeEvents, subscriptions, orders>>
           /\ \A b \in attempts' : ~(b.id = a.id /\ b.run = a.run)
           /\ \A j \in queue' :
                (a.lock /\ j.id = a.id) => j.state = "completed")]_vars

\* a job was delivered again after its first attempt had marked the event
\* processed; the second delivery was skipped and completed the job
C10_Witness ==
  /\ out.op = "processJob"
  /\ out.step = "skipped"
  /\ out.status = "completed"
  /\ out.row.processed
  /\ \E j \in queue : j.id = out.eid /\ j.state = "completed"

\* the event of attempt a has none of the four recognized types
Unrecognized(a) ==
  EventOf(a).type \notin InvoiceTypes \cup SubscriptionTypes

\* the stored event attempt a works on, before and after the step
RowOf(a) == CHOOSE row \in stripeEvents : row.id = a.data.eventId
RowAfter(a) == CHOOSE row \in stripeEvents' : row.id = a.data.eventId

\* C11: processing an event of an unrecognized type runs no handler step and
\* changes no subscription and no order; its attempt goes from the processed
\* check straight to the mark-processed write, which sets processed=true and
\* records no processing error; the job completes, and an attempt fails only
\* when the database rejects a call, never because of the type.
C11_UnknownTypeIsNoOp ==
  [][\A a \in attempts :
       (Unrecognized(a) /\ a \notin attempts')
       => /\ UNCHANGED <<subscriptions, orders>>
          /\ (TakesCheck(a) /\ ~EventProcessed(a))
               => \E b \in attempts' :
                    b.id = a.id /\ b.run = a.run /\ b.pc = "commit"
          /\ (a.pc = "commit" /\ out'.status = "completed")
               => /\ RowAfter(a).processed
                  /\ RowAfter(a).processingError = RowOf(a).processingError
                  /\ \A j \in queue' :
                       (a.lock /\ j.id = a.id) => j.state = "completed"
          /\ out'.status = "failed"
               => RowAfter(a).processingError = "Database unavailable"]_vars

\* the first attempt for an event of an unrecognized type has marked it
\* processed: no error is recorded, the job is completed and the
\* subscription and the order are as they were created
C11_Witness ==
  /\ out.op = "processJob" /\ out.step = "commit"
  /\ out.status = "completed"
  /\ out.eid = UnknownEvent.id
  /\ out.row.processed
  /\ out.row.processingError = Null
  /\ out.row.retryCount = 0
  /\ subscriptions["sub_1"] = NewSubscription
  /\ orders["ord_1"].status = OrderStatus.PENDING
  /\ \E j \in queue : j.id = out.eid /\ j.state = "completed"

\* the stored event of a provider event id is marked processed
Processed(eid) == \E row \in RowsOf(eid) : row.processed

\* C12: when the payment-failed event and the payment-succeeded event of one
\* invoice have been processed one after the other, in either order, the
\* order of that invoice is paid.
C12_EndsPaidInBothOrders ==
  (Processed(PaymentFailed.id) /\ Processed(PaymentSucceeded.id))
  => \A o \in DOMAIN orders : orders[o].status = OrderStatus.PAID

\* both events are processed and the order, linked to the invoice from the
\* start, is paid after it had been marked payment_failed: the failed
\* payment was processed first, the succeeded payment second
C12_Witness ==
  /\ Processed(PaymentFailed.id) /\ Processed(PaymentSucceeded.id)
  /\ attempts = {}
  /\ orders["ord_1"].status = OrderStatus.PAID
  /\ orders["ord_1"].failedAt # NoStamp
  /\ orders["ord_1"].failureReason = "Your card was declined."

\* C13: once an order is paid, no step of a payment-failed event changes it:
\* its status stays paid and its failure timestamp and failure reason stay
\* as they are.
C13_PaidIsTerminal ==
  [][\A o \in DOMAIN orders :
       orders[o].status = OrderStatus.PAID
       => /\ orders'[o].status = OrderStatus.PAID
          /\ orders'[o].failedAt = orders[o].failedAt
          /\ orders'[o].failureReason = orders[o].failureReason]_vars

\* the attempt that continues a after the step, at place pc
GoesTo(a, pc) ==
  \E b \in attempts' : b.id = a.id /\ b.run = a.run /\ b.pc = pc

\* the pending, unlinked orders of the event's merchant whose amount is the
\* amount paid
Linkable(event) ==
  {o \in DOMAIN orders :
     /\ orders[o].merchantId = merchants[event.customer]
     /\ orders[o].status = OrderStatus.PENDING
     /\ orders[o].stripeInvoiceId = Null
     /\ orders[o].amount = event.amount_paid}

\* C14: for a succeeded payment of an invoice no order references, the
\* linking step selects the earliest-created pending, unlinked order of the
\* merchant whose amount is the amount paid; the next steps set that order's
\* invoice and mark it paid, and change no other order.  When there is no
\* such order the step links nothing, changes no order and goes on to mark
\* the event processed.  No step of the attempt fails unless the database
\* rejects a call.
C14_LinksEarliestMatch ==
  [][\A a \in attempts :
       a \notin attempts'
       => IF out'.status = "failed"
          THEN /\ RowAfter(a).processingError = "Database unavailable"
               /\ orders' = orders
          ELSE LET event == EventOf(a)
                   cands == Linkable(event)
               IN
            /\ (a.pc = "link" /\ cands = {})
                 => orders' = orders /\ GoesTo(a, "commit")
            /\ (a.pc = "link" /\ cands # {})
                 => /\ orders' = orders
                    /\ \E o \in cands :
                         /\ \A p \in cands \ {o} :
                              orders[o].createdAt < orders[p].createdAt
                         /\ \E b \in attempts' :
                              b.run = a.run /\ b.found = o /\ b.pc = "linkw"
            /\ a.pc = "linkw"
                 => /\ orders' = [orders EXCEPT
                                   ![a.found].stripeInvoiceId = event.invoice]
                    /\ GoesTo(a, "ordr")
            /\ a.pc = "ordw"
                 => \E o \in DOMAIN orders :
                      /\ orders[o].stripeInvoiceId = event.invoice
                      /\ orders'[o].status = OrderStatus.PAID
                      /\ \A p \in DOMAIN orders \ {o} :
                           orders'[p] = orders[p]
            /\ a.pc \notin {"linkw", "ordw"} => orders' = orders
            /\ (a.pc = "commit" /\ out'.status = "completed")
                 => \A o \in DOMAIN orders :
                      orders[o].stripeInvoiceId = event.invoice
                      => orders[o].status = OrderStatus.PAID]_vars

\* two orders of the merchant were pending, unlinked and of the amount paid;
\* the event is processed by its first attempt, ord_2, created first, is
\* linked to the invoice and paid, and ord_1 is as it was
C14_Witness ==
  /\ out.op = "processJob" /\ out.step = "commit"
  /\ out.status = "completed"
  /\ out.row.retryCount = 0
  /\ orders["ord_2"].createdAt < orders["ord_1"].createdAt
  /\ orders["ord_2"].stripeInvoiceId = PaymentSucceeded.invoice
  /\ orders["ord_2"].status = OrderStatus.PAID
  /\ orders["ord_2"].paidAt = Stamp(PaymentSucceeded.id, 1)
  /\ orders["ord_1"] = NewOrder("m_1", 2999, Null, 2)

\* the last step was the given step of a reprocessEvent call
Reprocessed(step) == out.op = "reprocessEvent" /\ out.step = step

\* C15: a manual reprocess of an event that is stored with processed=true
\* fails with a conflict, and the call changes no stored event, no job of
\* the queue, no subscription and no order.
C15_ReprocessProcessedConflicts ==
  [][(Reprocessed("call")' /\ Processed(out'.eid))
     => /\ out'.status = "conflict"
        /\ UNCHANGED <<stripeEvents, queue, subscriptions, orders, rep>>]_vars

\* a reprocess call for an event the worker has processed was refused; the
\* event's row is processed and its job is completed
C15_Witness ==
  /\ Reprocessed("call")
  /\ out.status = "conflict"
  /\ Processed(out.eid)
  /\ \E j \in JobsOf(out.eid) : j.state = "completed"
  /\ rep = IdleRep

\* C16: a manual reprocess that succeeds for an event stored with
\* processed=false leaves a live job for that provider event id in the
\* queue, carrying the stored payload and the stored retry count, whatever
\* jobs for that id the queue held before the call.
C16_ReprocessLeavesLiveJob ==
  [][(Reprocessed("enqueue")' /\ out'.status = "ok"
        /\ ~Processed(out'.eid))
     => \E j \in queue' :
          /\ j.id = out'.eid
          /\ j.state \in LiveStates
          /\ j.data.payload = out'.row.payload]_vars

\* C17: an event whose job is parked in the failed set is resurrected by a
\* manual reprocess: when the call succeeds the event's job waits for
\* delivery again.
C17_ReprocessResurrectsFailedJob ==
  [][(Reprocessed("enqueue")' /\ out'.status = "ok"
        /\ \E j \in queue : j.id = out'.eid /\ j.state = "failed")
     => \E j \in queue' :
          /\ j.id = out'.eid
          /\ j.state = "waiting"
          /\ j.attemptsMade = 0]_vars

\* C18: a manual reprocess of a provider event id that has no stored event
\* fails with a not-found error and changes neither the event store nor
\* the queue.
C18_ReprocessUnknownNotFound ==
  [][(Reprocessed("call")' /\ RowsOf(out'.eid) = {})
     => /\ out'.status = "not_found"
        /\ UNCHANGED <<stripeEvents, queue>>]_vars

\* C19: no write decreases the stored retry count of an event.
C19_RetryCountNeverDecreases ==
  [][\A row \in stripeEvents : \A after \in stripeEvents' :
       after.id = row.id => after.retryCount >= row.retryCount]_vars

\* C20: once a stored event has processed=true, no step changes any of its
\* fields.
C20_ProcessedRowIsFrozen ==
  [][\A row \in stripeEvents :
       row.processed => row \in stripeEvents']_vars

\* C21: events that concern the same subscription are processed in the order
\* of their ingestion: while the first attempt for the event ingested first
\* is in flight and has applied no change yet, no attempt for an event of the
\* same subscription that was ingested later has applied its change.
C21_SameSubscriptionInOrder ==
  \A a \in attempts, b \in attempts :
    (/\ a.data.eventId < b.data.eventId
     /\ SubscriptionIdOf(EventOf(a)) = SubscriptionIdOf(EventOf(b))
     /\ a.attemptsMade = 0)
    => ~(b.applied /\ ~a.applied)

\* C22: at-least-once delivery under a fair worker.  A job that waits (or is
\* delayed by a backoff) is eventually delivered; a job that completed belongs
\* to a processed event; and every event with a live job is eventually
\* processed unless its job ends in the failed set.
JobsIn(eid, states) == {j \in JobsOf(eid) : j.state \in states}

C22_AtLeastOnceDelivery ==
  \A eid \in {PaymentSucceeded.id, UnknownEvent.id} :
    /\ (JobsIn(eid, {"waiting", "delayed"}) # {})
          ~> (JobsIn(eid, {"active"}) # {})
    /\ [](JobsIn(eid, {"completed"}) # {} => Processed(eid))
    /\ (LiveJobsOf(eid) # {})
          ~> (Processed(eid) \/ JobsIn(eid, {"failed"}) # {})

\* an event is processed by the attempt that follows a failed one
C22_Witness ==
  \E row \in stripeEvents :
    /\ row.processed
    /\ row.retryCount = 1
    /\ JobsIn(row.stripeEventId, {"completed"}) # {}
    /\ \A j \in JobsOf(row.stripeEventId) : j.stalledCounter = 0

\* C23: a job whose attempts all throw is delivered at most 3 times for one
\* enqueue: a job in delivery has failed fewer than 3 times, and the third
\* failure parks it in the failed set.  A parked job stays as it is (no step
\* delivers it again; it leaves the queue only when its retention is over),
\* and the failures leave an unprocessed event unprocessed.
Parked(j) ==
  /\ j.state = "failed"
  /\ j.attemptsMade = Attempts

C24_LookupFindsOrNotFound ==
  out.op = "getEvent" =>
    IF RowsOf(out.eid) = {}
    THEN out.status = "not_found" /\ out.row = NoRow
    ELSE out.status = "ok" /\ out.row \in RowsOf(out.eid)

\* C25: an ingest call that finds its event stored and unprocessed leaves one
\* live job for the event behind, whatever the queue held before: the job
\* that was live already, or the one it enqueued because there was none, also
\* when the queue only retained a finished job of the event.
C25_UnprocessedIngestLeavesLiveJob ==
  (/\ out.op = "handleWebhook"
   /\ out.step \in {"jobExists", "reenqueue"}
   /\ out.status = "ok"
   /\ ~Processed(out.eid))
  => Cardinality(LiveJobsOf(out.eid)) = 1

\* C26: when an attempt for an unprocessed event fails, the stored event
\* afterwards is still unprocessed, carries the message of the failure as its
\* last error and attemptsMade + 1 as its retry count, and the queue has
\* counted the failure: the job is delayed for a retry or, after the last
\* attempt, parked in the failed set.
FailureMessages ==
  {"Database unavailable", "Unique constraint failed",
   "Record to update not found"}

Fails(a) ==
  /\ a \in attempts
  /\ a \notin attempts'
  /\ out'.op = "processJob"
  /\ out'.status = "failed"

Succeeds(a) ==
  /\ a \in attempts
  /\ a \notin attempts'
  /\ out'.op = "processJob"
  /\ out'.step = "commit"
  /\ out'.status = "completed"

C27_SuccessMarksProcessed ==
  [][\A a \in attempts :
       (Succeeds(a) /\ ~RowOf(a).processed) =>
         /\ RowAfter(a).processed
         /\ RowAfter(a).processedAt # NoStamp
         /\ RowAfter(a).retryCount = a.attemptsMade
         /\ RowAfter(a).retryCount = a.run - 1
         /\ \E j \in queue' :
              /\ j.id = a.id
              /\ j.state = "completed"
              /\ j.attemptsMade = RowAfter(a).retryCount]_vars

\* the third attempt of a job succeeded after two failed ones
C27_Witness ==
  /\ out.op = "processJob"
  /\ out.step = "commit"
  /\ out.status = "completed"
  /\ out.row.processed
  /\ out.row.processedAt # NoStamp
  /\ out.row.retryCount = 2
  /\ \E j \in JobsOf(out.eid) : j.state = "completed" /\ j.attemptsMade = 2

\* C28 as stated: an event whose subscription is not in the subscription
\* table, or whose invoice no order carries, changes no subscription and no
\* order.
SubscriptionMissing(event) ==
  /\ SubscriptionIdOf(event) # Null
  /\ SubscriptionIdOf(event) \notin DOMAIN subscriptions

OrderMissing(event) ==
  /\ event.type \in InvoiceTypes
  /\ OrderByInvoiceId(orders, event.invoice) = Null

C28_Original ==
  [][\A a \in attempts :
       /\ SubscriptionMissing(EventOf(a)) => subscriptions' = subscriptions
       /\ OrderMissing(EventOf(a)) => orders' = orders]_vars

\* C28: a recognized event whose subscription is not in the subscription
\* table changes no subscription, and one whose invoice no order carries
\* changes no order unless it is a payment-succeeded event and a pending
\* order of the merchant matches the amount paid (that order is linked and
\* paid).  Processing creates no subscription and no order, fails only when
\* the store rejects a call, and a successful attempt marks the event
\* processed.
NothingToLink(event) ==
  event.type = WEBHOOK_JOB_TYPES.INVOICE_PAYMENT_SUCCEEDED =>
    PendingMatches(orders, MerchantOf(event.customer), event.amount_paid) = {}

NothingLocal(event) ==
  \/ SubscriptionMissing(event)
  \/ OrderMissing(event)

C28_MissingEntityIsNoOp ==
  [][\A a \in attempts :
       /\ DOMAIN subscriptions' = DOMAIN subscriptions
       /\ DOMAIN orders' = DOMAIN orders
       /\ SubscriptionMissing(EventOf(a)) => subscriptions' = subscriptions
       /\ (OrderMissing(EventOf(a)) /\ NothingToLink(EventOf(a)))
            => orders' = orders
       /\ (NothingLocal(EventOf(a)) /\ Fails(a))
            => RowAfter(a).processingError = "Database unavailable"
       /\ (NothingLocal(EventOf(a)) /\ Succeeds(a))
            => RowAfter(a).processed]_vars

\* an event of a known customer that names an unknown subscription and an
\* invoice without an order is processed at the first attempt: the tables
\* are as they were
C28_Witness ==
  /\ out.op = "processJob"
  /\ out.step = "commit"
  /\ out.status = "completed"
  /\ out.row.processed
  /\ out.row.retryCount = 0
  /\ catalog[out.eid].customer = "cus_1"
  /\ SubscriptionMissing(catalog[out.eid])
  /\ OrderMissing(catalog[out.eid])
  /\ subscriptions["sub_1"] = NewSubscription
  /\ \A o \in DOMAIN orders :
       orders[o].status = OrderStatus.PENDING /\ orders[o].paidAt = NoStamp

\* C29: a payment-succeeded or payment-failed event whose customer belongs to
\* no merchant changes no subscription and no order, also when it names a
\* subscription and an invoice that exist locally; its attempt fails only
\* when the store rejects a call, and a successful attempt marks the event
\* processed.
Unresolvable(event) ==
  /\ event.type \in InvoiceTypes
  /\ event.customer \notin DOMAIN merchants

C29_NoMerchantIsSkipped ==
  [][\A a \in attempts :
       Unresolvable(EventOf(a)) =>
         /\ subscriptions' = subscriptions
         /\ orders' = orders
         /\ Fails(a) => RowAfter(a).processingError = "Database unavailable"
         /\ Succeeds(a) => RowAfter(a).processed
         /\ a.pc # "check" => a.pc = "commit"]_vars

\* an event of an unknown customer that names sub_1 and in_1 is processed at
\* the first attempt; the subscription and the order of in_1 are untouched
C29_Witness ==
  /\ out.op = "processJob"
  /\ out.step = "commit"
  /\ out.status = "completed"
  /\ out.row.processed
  /\ out.row.retryCount = 0
  /\ out.row.processingError = Null
  /\ Unresolvable(catalog[out.eid])
  /\ catalog[out.eid].subscription = "sub_1"
  /\ catalog[out.eid].invoice = "in_1"
  /\ subscriptions["sub_1"] = NewSubscription
  /\ orders["ord_1"] = NewOrder("m_1", 2999, "in_1", 1)

\* C30: each handler is idempotent on statuses and links.  Once an event is
\* processed, processing an event of the same content again changes no
\* subscription status, no order status and no link of an order to an
\* invoice; a second payment-succeeded event for an invoice links no
\* further order.
StatusesAndLinks ==
  <<[s \in DOMAIN subscriptions |-> subscriptions[s].status],
    [o \in DOMAIN orders |-> orders[o].status],
    [o \in DOMAIN orders |-> orders[o].stripeInvoiceId]>>

C30_HandlersIdempotent ==
  [][(\E row \in stripeEvents : row.processed)
       => StatusesAndLinks' = StatusesAndLinks]_vars

\* both payment-succeeded events are processed: the first order is linked
\* to the invoice and paid, the second is still pending and unlinked
C30_Witness ==
  /\ \A row \in stripeEvents :
       /\ row.processed
       /\ row.eventType = WEBHOOK_JOB_TYPES.INVOICE_PAYMENT_SUCCEEDED
  /\ Cardinality(stripeEvents) = 2
  /\ subscriptions["sub_1"].status = "active"
  /\ orders["ord_1"].status = OrderStatus.PAID
  /\ orders["ord_1"].stripeInvoiceId = "in_1"
  /\ orders["ord_2"] = NewOrder("m_1", 2999, Null, 2)

\* C31: the failure reason a payment-failed event stores on its order is the
\* first non-empty of the finalization error's message and the charge's
\* failure message, else "Payment failed"; a finalization error with an
\* empty message gives way to the charge's message.
C31_FirstNonEmptyReason ==
  \A eid \in EventIds :
    LET event == catalog[eid]
        fin == IF event.last_finalization_error.present
               THEN event.last_finalization_error.message ELSE ""
        ch == IF event.charge.kind = "object"
              THEN event.charge.failure_message ELSE ""
    IN  orders["ord_1"].status = OrderStatus.PAYMENT_FAILED =>
          orders["ord_1"].failureReason =
            IF fin # "" THEN fin ELSE IF ch # "" THEN ch ELSE "Payment failed"

\* C32: the subscription update of a subscription-updated event sets the
\* status of an existing subscription to the status the event reports,
\* whatever the stored status was, sets each period bound and the
\* cancellation time the event carries, and leaves those it does not carry
\* as they were stored.
C32_UpdatedEventWins ==
  [][\A a \in attempts :
       LET event == EventOf(a)
           sid == SubscriptionIdOf(event)
       IN  (/\ a.pc = "sub"
            /\ GoesTo(a, "commit")
            /\ event.type = WEBHOOK_JOB_TYPES.CUSTOMER_SUBSCRIPTION_UPDATED
            /\ sid \in DOMAIN subscriptions) =>
             /\ subscriptions'[sid].status = event.status
             /\ subscriptions'[sid].currentPeriodStart =
                  IF event.current_period_start = 0
                  THEN subscriptions[sid].currentPeriodStart
                  ELSE DateOf(event.current_period_start)
             /\ subscriptions'[sid].currentPeriodEnd =
                  IF event.current_period_end = 0
                  THEN subscriptions[sid].currentPeriodEnd
                  ELSE DateOf(event.current_period_end)
             /\ subscriptions'[sid].canceledAt =
                  IF event.canceled_at = 0
                  THEN subscriptions[sid].canceledAt
                  ELSE DateOf(event.canceled_at)]_vars

\* an event that reports active and carries no bounds and no cancellation
\* time is processed: the subscription is active and keeps what was stored
C32_Witness ==
  /\ \A row \in stripeEvents :
       /\ row.processed
       /\ row.eventType = WEBHOOK_JOB_TYPES.CUSTOMER_SUBSCRIPTION_UPDATED
       /\ catalog[row.stripeEventId].current_period_start = 0
       /\ catalog[row.stripeEventId].current_period_end = 0
       /\ catalog[row.stripeEventId].canceled_at = 0
       /\ catalog[row.stripeEventId].status = "active"
  /\ subscriptions["sub_1"].status = "active"
  /\ subscriptions["sub_1"].currentPeriodStart = DateOf(5)
  /\ subscriptions["sub_1"].currentPeriodEnd = DateOf(6)
  /\ subscriptions["sub_1"].canceledAt = DateOf(7)

\* C33: ingest and manual reprocess never modify a stored event.  A step
\* that changes a stored row is the end of a processing attempt, and no step
\* changes the provider event id, the event type or the payload of a row.
C33_OnlyProcessorWritesRows ==
  [][\A row \in stripeEvents :
       /\ \E after \in stripeEvents' :
            /\ after.id = row.id
            /\ after.stripeEventId = row.stripeEventId
            /\ after.eventType = row.eventType
            /\ after.payload = row.payload
       /\ row \notin stripeEvents' =>
            \E a \in attempts :
              /\ a.data.eventId = row.id
              /\ a \notin attempts'
              /\ out'.op = "processJob"]_vars

\* a manual reprocess succeeded for an event that failed three attempts:
\* the row still has its count and its error
C33_Witness ==
  /\ Reprocessed("enqueue")
  /\ out.status = "ok"
  /\ \E row \in RowsOf(out.eid) :
       /\ ~row.processed
       /\ row.retryCount = Attempts
       /\ row.processingError = "Database unavailable"

\* C34: when two ingest calls of the same verified, unseen event both look
\* the event up before either persists it, one row is created and neither
\* call fails: no call is answered with an error at its insert.
C34_ConcurrentIngestBothSucceed ==
  /\ \A eid \in EventIds : Cardinality(RowsOf(eid)) <= 1
  /\ Answered("create") => out.status = "ok"

\* C35: once an order is linked to an invoice its link never changes, also
\* when two payment-succeeded events for different invoices of one merchant
\* and one amount are processed at the same time and a single pending order
\* matches.
C35_LinkNeverChanges ==
  [][\A o \in DOMAIN orders :
       orders[o].stripeInvoiceId # Null =>
         orders'[o].stripeInvoiceId = orders[o].stripeInvoiceId]_vars

\* C36: a job finishes successfully only when its event is processed: every
\* completed job refers to a stored event with processed = true.
C36_CompletedMeansProcessed ==
  \A j \in queue :
    j.state = "completed" =>
      \E row \in stripeEvents : row.id = j.data.eventId /\ row.processed

\* a job delivered again after its lock expired finds the event processed
\* by the attempt that lost the lock, and completes without processing it
C36_Witness ==
  /\ out.op = "processJob"
  /\ out.step = "skipped"
  /\ \E j \in JobsOf(out.eid) : j.state = "completed"
  /\ \E row \in RowsOf(out.eid) : row.processed

\* C37: a stored event is processed if and only if it has a processed
\* timestamp, in every state, and a processed event never becomes
\* unprocessed again.
Timestamped(rows) ==
  \A row \in rows : row.processed <=> row.processedAt # NoStamp

C37_ProcessedIffTimestamped ==
  [][/\ Timestamped(stripeEvents)
     /\ Timestamped(stripeEvents')
     /\ \A row \in stripeEvents :
          row.processed =>
            \E after \in stripeEvents' :
              after.id = row.id /\ after.processed]_vars

\* a processed event is written once more, by a failing attempt that had
\* lost its lock: it is still processed and has its timestamp
C37_Witness ==
  \E row \in stripeEvents :
    /\ row.processed
    /\ row.processedAt # NoStamp
    /\ row.processingError = "Database unavailable"
    /\ out.op = "processJob"
    /\ out.status = "failed"
    /\ out.row = row

\* SpecStatus: the payment-failed and the payment-succeeded event of one
\* invoice, processed one after the other in either order, with the
\* merchant's order in any of the five statuses, linked to the invoice or
\* not.  Under it C38 holds; under SpecInvoice, where the worker runs the two
\* jobs at the same time, it does not.
InitStatus ==
  /\ webhookSecret = GoodSecret
  /\ catalog = CatalogOf({PaymentSucceeded, PaymentFailed})
  /\ merchants = [c \in {"cus_1"} |-> "m_1"]
  /\ subscriptions = [s \in {"sub_1"} |-> NewSubscription]
  /\ \E invoiceId \in {"in_1", Null} :
     \E status \in {OrderStatus.PENDING, OrderStatus.PAID,
                     OrderStatus.PAYMENT_FAILED, OrderStatus.REFUNDED,
                     OrderStatus.CANCELED} :
       orders = [o \in {"ord_1"} |->
                   [NewOrder("m_1", 2999, invoiceId, 1)
                      EXCEPT !.status = status]]
  /\ stripeEvents = {NewRow(1, PaymentFailed), NewRow(2, PaymentSucceeded)}
  /\ nextId = 3
  /\ queue =
       QueueAdd(QueueAdd({}, JobData(NewRow(1, PaymentFailed),
                                     PaymentFailed.type, 0)),
                JobData(NewRow(2, PaymentSucceeded),
                        PaymentSucceeded.type, 0))
  /\ calls = EmptyBag
  /\ rep = IdleRep
  /\ attempts = {}
  /\ out = NoOut

SpecStatus == InitStatus /\ [][NextInTurn]_vars

\* the attempt processes a payment-succeeded event
OfSucceeded(a) ==
  EventOf(a).type = WEBHOOK_JOB_TYPES.INVOICE_PAYMENT_SUCCEEDED

\* the status of the order that carries the invoice of the attempt's event
LinkedStatus(a) ==
  orders[OrderByInvoiceId(orders, EventOf(a).invoice)].status

\* C38: a payment-succeeded event marks the order of its invoice paid from
\* every status other than paid, a payment-failed event changes the order
\* of its invoice, to payment_failed, only when the order is neither paid
\* nor payment_failed, and no step changes the status of a paid order.
C38_OnlyPaidIsFinal ==
  [][/\ \A a \in attempts :
          OrderByInvoiceId(orders, EventOf(a).invoice) # Null =>
            /\ (a.pc = "ordr" /\ GoesTo(a, "ordw")) =>
                 /\ LinkedStatus(a) # OrderStatus.PAID
                 /\ OfSucceeded(a)
                    \/ LinkedStatus(a) # OrderStatus.PAYMENT_FAILED
            /\ (a.pc = "ordr" /\ GoesTo(a, "commit")) =>
                 /\ orders' = orders
                 /\ \/ LinkedStatus(a) = OrderStatus.PAID
                    \/ /\ ~OfSucceeded(a)
                       /\ LinkedStatus(a) = OrderStatus.PAYMENT_FAILED
            /\ (a.pc = "ordw" /\ GoesTo(a, "commit")) =>
                 /\ LinkedStatus(a)' =
                      IF OfSucceeded(a) THEN OrderStatus.PAID
                      ELSE OrderStatus.PAYMENT_FAILED
                 /\ LinkedStatus(a) # LinkedStatus(a)'
     /\ \A o \in DOMAIN orders :
          /\ orders[o].status = OrderStatus.PAID
               => orders'[o].status = OrderStatus.PAID
          /\ orders'[o].status # orders[o].status
               => \E a \in attempts : a.pc = "ordw" /\ GoesTo(a, "commit")]_vars

\* C39: a successful attempt leaves the stored event's last error as it is.
\* An event that succeeds after one or more failed attempts is processed and
\* still carries the message of the last failure; an event that succeeds on
\* its first attempt is processed with no last error.
C39_SuccessKeepsLastError ==
  [][\A a \in attempts :
       Succeeds(a) =>
         /\ RowAfter(a).processed
         /\ RowAfter(a).processingError = RowOf(a).processingError
         /\ a.attemptsMade >= 1 => RowAfter(a).processingError \in FailureMessages
         /\ a.attemptsMade = 0 => RowAfter(a).processingError = Null]_vars

\* an event has been marked processed by the second attempt of its job and
\* its row still carries the first attempt's error
C39_Witness ==
  /\ out.op = "processJob"
  /\ out.step = "commit"
  /\ out.status = "completed"
  /\ out.row.processed
  /\ out.row.retryCount = 1
  /\ out.row.processingError = "Database unavailable"
====
